---- MODULE Spec2Model ----
(***************************************************************************)
(* A model of weak-arena (src/src/lib.rs): WeakArena, a bump allocator     *)
(* over a growing list of pages, and the handles WeakBox / WeakShared that *)
(* check a shared liveness flag (Rc<Cell<bool>>) on every access.          *)
(*                                                                         *)
(* Addresses are the naturals 1..MemTop (NonNull: never 0).  The system    *)
(* allocator is asked for alignment 1 (lib.rs:42), so a page may start at  *)
(* any free address.  Every byte of memory is a cell that is unmapped,     *)
(* mapped and never written, holding a value, or holding a value whose     *)
(* destructor has run.                                                     *)
(*                                                                         *)
(* clear() runs the user's destructors (Vec::clear on drop_handlers) and   *)
(* only then touches the pages and the flag.  A destructor is user code    *)
(* and may use any handle it owns, so clear() is modelled as ClearStart,   *)
(* one RunDropHandler step per registered destructor, and ClearFinish      *)
(* (everything after lib.rs:124, which runs no user code).                 *)
(*                                                                         *)
(* Spec explores every operation on a small memory.  SpecGrow is the run   *)
(* of tests::page_grows_exp: an arena filled with values of one size, on a *)
(* memory large enough for sixteen of them.  Both use the same actions;    *)
(* page_log keeps the history of the pages created and released.           *)
(***************************************************************************)
EXTENDS Integers, Sequences, FiniteSets

(* ------------------------------ bounds -------------------------------- *)
\* the address space is 1..MemTop
MemTop == 6
\* allocations made over the arena's life
MaxAllocs == 2
\* clear() calls over the arena's life
MaxClears == 1
\* handles in existence (one per allocation, plus clones)
MaxHandles == 3
\* allocations made by a run that only fills an arena with values of one size
GrowAllocs == 16

\* page sizes WeakArena::new is called with (with 0 it panics: no arena comes of it)
InitPageSizes == {0, 1, 2}
\* where the system allocator puts the arena's first page: an odd and an even address
FirstPageStarts == {1, 2}
\* the layouts (Layout::new::<T>()) and needs_drop::<T>() of the types allocated
Types ==
  { [size |-> 0, align |-> 2, nd |-> TRUE],
    [size |-> 1, align |-> 1, nd |-> TRUE],
    [size |-> 2, align |-> 2, nd |-> FALSE] }
\* the values callers store: the serial number of the allocation, so that every stored
\* value is different and a read tells whose bytes it sees
Vals == 1..MaxAllocs
\* the one value of a zero-sized type
Unit == 0
Addrs == 1..MemTop

VARIABLES
  page_size,      \* WeakArena.page_size
  pages,          \* WeakArena.pages: Seq of AllocationPage
  cursor,         \* WeakArena.cursor: [page (0-based index), offset (address)]
  drop_handlers,  \* WeakArena.drop_handlers: Seq of DropHandler
  alive,          \* WeakArena.alive: which flag cell the arena's Rc points to
  flags,          \* the Cell<bool> behind every Rc<Cell<bool>> made so far
  handles,        \* the WeakBox / WeakShared values the user holds
  mem,            \* the bytes of memory
  pc,             \* "idle", "clear", "teardown" (inside Drop for WeakArena), "gone"
  pending,        \* the DropHandlers Vec::clear has still to drop
  objs,           \* history: every allocation made, in order
  origin,         \* history: origin[h] is the allocation handle h descends from
  dropped,        \* history: the allocations whose destructor has run, in order
  clears,         \* history: the number of clear() calls that have returned
  page_log,       \* history: the capacity of every page ever created (its position is
                  \* the page's serial number), the serials of the arena's pages in
                  \* the order of pages, and the serials released, in order
  budget          \* how many allocations and handles this run explores

arena == <<page_size, pages, cursor, drop_handlers, alive, pending, pc>>
vars == <<page_size, pages, cursor, drop_handlers, alive, flags, handles, mem, pc,
          pending, objs, origin, dropped, clears, page_log, budget>>

(* ------------------------------ memory -------------------------------- *)
Unmapped == [st |-> "unmapped", v |-> 0]
Uninit == [st |-> "uninit", v |-> 0]
Init_(v) == [st |-> "init", v |-> v]
Range(ptr, size) == ptr .. (ptr + size - 1)
Max(a, b) == IF a >= b THEN a ELSE b

\* alloc::alloc(layout) with align 1: any block of free addresses
FreeStarts(m, size) ==
  {s \in DOMAIN m :
     s + size - 1 \in DOMAIN m /\ \A a \in Range(s, size) : m[a].st = "unmapped"}

\* alloc::alloc maps the block, its bytes uninitialized
Map(m, start, size) == [a \in DOMAIN m |-> IF a \in Range(start, size) THEN Uninit ELSE m[a]]
\* alloc::dealloc
Unmap(m, start, size) == [a \in DOMAIN m |-> IF a \in Range(start, size) THEN Unmapped ELSE m[a]]
\* ptr::write(ptr, f())
Store(m, ptr, size, v) == [a \in DOMAIN m |-> IF a \in Range(ptr, size) THEN Init_(v) ELSE m[a]]
\* ptr::drop_in_place(ptr): the bytes stay, the value is gone
DropInPlace(m, ptr, size) ==
  [a \in DOMAIN m |->
     IF a \in Range(ptr, size) THEN [m[a] EXCEPT !.st = "dropped"] ELSE m[a]]

\* Whether [ptr, ptr+size) holds one live value, and the values a read of it may give:
\* that value, or anything when the storage is not a live value (undefined behaviour).
Intact(m, ptr, size) ==
  \A a \in Range(ptr, size) : m[a].st = "init" /\ m[a].v = m[ptr].v
Load(m, ptr, size) ==
  IF size = 0 THEN {Unit}
  ELSE IF Intact(m, ptr, size) THEN {m[ptr].v}
  ELSE Vals

(* ------------------------------- pages -------------------------------- *)
\* AllocationPage::new, lib.rs:46: assert_ne!(layout.size(), 0), before alloc::alloc
\* (a constructor without the assertion)
nonzero_unchecked(size) == TRUE
nonzero(size) == size # 0

\* AllocationPage::new(size), placed at start by the system allocator
AllocationPage(start, size) == [layout |-> size, start |-> start, end |-> start + size]

None == <<>>

\* cursor.align_offset(layout.align())
\* (a cursor that is never aligned)
align_offset_none(addr, align) == 0
align_offset(addr, align) == (align - (addr % align)) % align

\* AllocationPage::try_alloc_layout: <<data_ptr, data_end_ptr>> or None
\* (a page whose last byte is never handed out)
try_alloc_layout_strict(page, cur, layout) ==
  LET data_ptr == cur + align_offset(cur, layout.align)
      data_end_ptr == data_ptr + layout.size
  IN IF data_end_ptr < page.end THEN <<data_ptr, data_end_ptr>> ELSE None
try_alloc_layout(page, cur, layout) ==
  LET data_ptr == cur + align_offset(cur, layout.align)
      data_end_ptr == data_ptr + layout.size
  IN IF data_end_ptr <= page.end THEN <<data_ptr, data_end_ptr>> ELSE None

\* alloc_in_current_page, up to its assignment to the cursor
alloc_in_current_page(layout) ==
  IF cursor.page + 1 \in DOMAIN pages
  THEN try_alloc_layout(pages[cursor.page + 1], cursor.offset, layout)
  ELSE None

\* alloc_in_new_page: the new page_size
\* (a hint that is not doubled; a page sized for the value alone)
grown_page_size_undoubled(layout) == Max(page_size, layout.size)
grown_page_size_exact(layout) == layout.size
grown_page_size(layout) == Max(page_size * 2, layout.size)

(* ---------------------------- page history ---------------------------- *)
\* pages.push(page) of a page just created with the given capacity
log_pushed(size) ==
  [page_log EXCEPT !.sizes = Append(@, size),
                   !.live = Append(@, Len(page_log.sizes) + 1)]
\* a page created and dropped again without having been pushed (the unwinding from
\* lib.rs:184)
log_unwound(size) ==
  [page_log EXCEPT !.sizes = Append(@, size),
                   !.released = Append(@, Len(page_log.sizes) + 1)]
\* the first n pages of the arena dropped (Drop for AllocationPage), the last k staying
log_dropped(n, k) ==
  [page_log EXCEPT !.released = @ \o SubSeq(page_log.live, 1, n),
                   !.live = SubSeq(@, Len(@) - k + 1, Len(@))]

(* ----------------------------- allocation ----------------------------- *)
\* alloc_in_current_page, lib.rs:171: the cursor after a reservation r
\* (a cursor left at the start of the reservation)
advance_stuck(r) == r[1]
advance(r) == r[2]

\* DropHandler::new(data_ptr): the address, and drop::<T> (which knows T's size);
\* obj names the allocation in the history
DropHandler(ptr, ty, id) == [value |-> ptr, size |-> ty.size, obj |-> id]

\* alloc_with, lib.rs:157-159: the registry after an allocation of type ty at ptr
\* (a registry that grows at the front)
register_reversed(ptr, ty, id) ==
  IF ty.nd THEN <<DropHandler(ptr, ty, id)>> \o drop_handlers ELSE drop_handlers
register(ptr, ty, id) ==
  IF ty.nd THEN Append(drop_handlers, DropHandler(ptr, ty, id)) ELSE drop_handlers

\* WeakBox::new(data_ptr, self.alive.clone())
WeakBox(ptr, flag, ty) == [ptr |-> ptr, alive |-> flag, size |-> ty.size, kind |-> "box"]

\* alloc_with after alloc_layout returned ptr: write the value into memory m, register
\* the destructor, return the handle
Emplace(m, ptr, ty, v) ==
  LET id == Len(objs) + 1 IN
  /\ mem' = Store(m, ptr, ty.size, v)
  /\ drop_handlers' = register(ptr, ty, id)
  /\ handles' = Append(handles, WeakBox(ptr, alive, ty))
  /\ origin' = Append(origin, id)
  /\ objs' = Append(objs, [ptr |-> ptr, size |-> ty.size, align |-> ty.align, nd |-> ty.nd,
                           v |-> v, flag |-> alive, epoch |-> clears])

CanAlloc == pc = "idle" /\ Len(objs) < budget.allocs /\ Len(handles) < budget.handles
\* the value the caller passes to alloc
ValueOf(ty) == IF ty.size = 0 THEN Unit ELSE Len(objs) + 1

\* alloc / alloc_with when the layout fits in the current page
AllocInCurrentPage(ty) ==
  LET r == alloc_in_current_page(ty) IN
  /\ CanAlloc
  /\ r # None
  /\ cursor' = [cursor EXCEPT !.offset = advance(r)]
  /\ Emplace(mem, r[1], ty, ValueOf(ty))
  /\ UNCHANGED <<page_size, pages, alive, flags, pc, pending, dropped, clears, page_log,
                 budget>>

\* alloc / alloc_with when it does not fit: alloc_in_new_page, the system allocator
\* placing the new page at start
AllocInNewPage(ty, start) ==
  LET size == grown_page_size(ty)
      page == AllocationPage(start, size)
      r == try_alloc_layout(page, page.start, ty)
  IN
  /\ CanAlloc
  /\ alloc_in_current_page(ty) = None
  /\ nonzero(size)
  /\ start \in FreeStarts(mem, size)
  /\ r # None
  /\ page_size' = size
  /\ pages' = Append(pages, page)
  /\ cursor' = [page |-> Len(pages), offset |-> r[2]]
  /\ Emplace(Map(mem, start, size), r[1], ty, ValueOf(ty))
  /\ page_log' = log_pushed(size)
  /\ UNCHANGED <<alive, flags, pc, pending, dropped, clears, budget>>

\* the same, when the layout does not fit at the new page's start: unwrap() panics at
\* lib.rs:184, the local page is dropped again, and only page_size has changed
AllocInNewPagePanics(ty, start) ==
  LET size == grown_page_size(ty)
      page == AllocationPage(start, size)
  IN
  /\ CanAlloc
  /\ alloc_in_current_page(ty) = None
  /\ nonzero(size)
  /\ start \in FreeStarts(mem, size)
  /\ try_alloc_layout(page, page.start, ty) = None
  /\ page_size' = size
  /\ page_log' = log_unwound(size)
  /\ UNCHANGED <<pages, cursor, drop_handlers, alive, flags, handles, mem, pc, pending,
                 objs, origin, dropped, clears, budget>>

(* ------------------------------- clear -------------------------------- *)
\* lib.rs:124, Vec::clear: the vector is emptied, then its elements are dropped in order
ClearStart ==
  /\ pc = "idle"
  /\ clears < MaxClears
  /\ pc' = "clear"
  /\ pending' = drop_handlers
  /\ drop_handlers' = <<>>
  /\ UNCHANGED <<page_size, pages, cursor, alive, flags, handles, mem, objs, origin,
                 dropped, clears, page_log, budget>>

\* impl Drop for WeakArena: self.clear(), then the fields are dropped
TeardownStart ==
  /\ pc = "idle"
  /\ pc' = "teardown"
  /\ pending' = drop_handlers
  /\ drop_handlers' = <<>>
  /\ UNCHANGED <<page_size, pages, cursor, alive, flags, handles, mem, objs, origin,
                 dropped, clears, page_log, budget>>

\* impl Drop for DropHandler, for the next element of the vector being cleared
RunDropHandler ==
  /\ pc \in {"clear", "teardown"}
  /\ pending # <<>>
  /\ mem' = DropInPlace(mem, Head(pending).value, Head(pending).size)
  /\ dropped' = Append(dropped, Head(pending).obj)
  /\ pending' = Tail(pending)
  /\ UNCHANGED <<page_size, pages, cursor, drop_handlers, alive, flags, handles, pc,
                 objs, origin, clears, page_log, budget>>

\* lib.rs:127-129: the pages that are drained (and so deallocated), and those kept
\* (a clear that takes the pages out without dropping them)
drained_none == <<>>
drained == IF Len(pages) > 1 THEN SubSeq(pages, 1, Len(pages) - 1) ELSE <<>>
kept == IF Len(pages) > 1 THEN <<pages[Len(pages)]>> ELSE pages

RECURSIVE UnmapAll(_, _)
UnmapAll(m, ps) ==
  IF ps = <<>> THEN m ELSE UnmapAll(Unmap(m, Head(ps).start, Head(ps).layout), Tail(ps))

\* lib.rs:131-132: alive.set(false), then a new Rc<Cell<bool>> for the arena
\* (a clear that leaves the old flag set; a clear that swaps between two flag cells)
clear_alive_unset == [flags |-> Append(flags, TRUE), alive |-> Len(flags) + 1]
clear_alive_toggle ==
  LET other == IF alive = 1 THEN 2 ELSE 1
      fl == IF Len(flags) < 2 THEN Append(flags, TRUE) ELSE flags
  IN [flags |-> [fl EXCEPT ![alive] = FALSE, ![other] = TRUE], alive |-> other]
clear_alive ==
  [flags |-> Append([flags EXCEPT ![alive] = FALSE], TRUE), alive |-> Len(flags) + 1]

\* lib.rs:134-137: the cursor after clear()
\* (a clear that leaves the cursor's page index alone; one that puts the cursor at the
\* end of the page)
reset_cursor_index == [page |-> cursor.page, offset |-> kept[1].start]
reset_cursor_end == [page |-> 0, offset |-> kept[1].end]
reset_cursor == [page |-> 0, offset |-> kept[1].start]

\* clear() from lib.rs:126 on
ClearBody ==
  /\ pages' = kept
  /\ flags' = clear_alive.flags
  /\ alive' = clear_alive.alive
  /\ cursor' = reset_cursor

ClearFinish ==
  /\ pc = "clear"
  /\ pending = <<>>
  /\ ClearBody
  /\ mem' = UnmapAll(mem, drained)
  /\ page_log' = log_dropped(Len(drained), Len(kept))
  /\ pc' = "idle"
  /\ clears' = clears + 1
  /\ UNCHANGED <<page_size, drop_handlers, handles, pending, objs, origin, dropped,
                 budget>>

\* the end of Drop for WeakArena: clear() returns, then every field is dropped, the
\* remaining page with them
TeardownFinish ==
  /\ pc = "teardown"
  /\ pending = <<>>
  /\ flags' = clear_alive.flags
  /\ alive' = clear_alive.alive
  /\ cursor' = reset_cursor
  /\ pages' = <<>>
  /\ mem' = UnmapAll(mem, pages)
  /\ page_log' = [log_dropped(Len(drained), Len(kept)) EXCEPT
                    !.released = @ \o log_dropped(Len(drained), Len(kept)).live,
                    !.live = <<>>]
  /\ pc' = "gone"
  /\ clears' = clears + 1
  /\ UNCHANGED <<page_size, drop_handlers, handles, pending, objs, origin, dropped,
                 budget>>

(* ------------------------------ handles ------------------------------- *)
\* Whether the storage handle h points at no longer holds the value it was issued for:
\* the value's destructor has run, or its page has been released.
Stale(h) ==
  \/ \E i \in DOMAIN dropped : dropped[i] = origin[h]
  \/ \E a \in Range(handles[h].ptr, handles[h].size) : mem[a].st = "unmapped"

\* WeakBox::as_ref / as_mut, WeakShared::as_ref:
\*   self.alive.get().then_some(unsafe { self.ptr.as_ref() })
\* The receiver alive.get() is evaluated (flag), then the argument: the reference is
\* formed from ptr whatever the flag says (formed); then_some keeps it or drops it (some).
\* No memory is read in forming it, so the Option returned is decided by the flag alone.
\* flags: the flag cells after the call.
\* (an access that takes the flag, alive.replace(false), instead of reading it)
as_ref_take(h) ==
  [flag |-> flags[h.alive], formed |-> TRUE, some |-> flags[h.alive], panic |-> FALSE,
   flags |-> [flags EXCEPT ![h.alive] = FALSE]]
as_ref(h) ==
  [flag |-> flags[h.alive], formed |-> TRUE, some |-> flags[h.alive], panic |-> FALSE,
   flags |-> flags]

\* Deref / DerefMut: self.as_ref().expect("Dead resource")
expect(r) == [r EXCEPT !.panic = ~r.some]
deref(h) == expect(as_ref(h))

\* What a read through the reference an access hands out may give (r: what it returned)
Read(h, r) == IF r.some THEN Load(mem, handles[h].ptr, handles[h].size) ELSE {}

\* WeakBox::into_shared
into_shared(h) == [ptr |-> h.ptr, alive |-> h.alive, size |-> h.size, kind |-> "shared"]

\* impl Clone for WeakShared: the new handle, and the flag cells after alive.clone()
\* (a clone that copies the flag's value into a cell of its own)
clone_by_value(h) ==
  [handle |-> [h EXCEPT !.alive = Len(flags) + 1], flags |-> Append(flags, flags[h.alive])]
clone(h) == [handle |-> [ptr |-> h.ptr, alive |-> h.alive, size |-> h.size, kind |-> h.kind],
             flags |-> flags]

\* User code runs between the arena's operations, after the arena is gone, and inside
\* the destructors clear() calls.
UserRuns == pc \in {"idle", "gone"} \/ pending # <<>>

AsRef(h) ==
  /\ UserRuns
  /\ flags' = as_ref(handles[h]).flags
  /\ UNCHANGED <<arena, page_log, budget, handles, mem, objs, origin, dropped, clears>>

AsMut(h) ==
  /\ UserRuns
  /\ handles[h].kind = "box"
  /\ flags' = as_ref(handles[h]).flags
  /\ UNCHANGED <<arena, page_log, budget, handles, mem, objs, origin, dropped, clears>>

Deref(h) ==
  /\ UserRuns
  /\ flags' = deref(handles[h]).flags
  /\ UNCHANGED <<arena, page_log, budget, handles, mem, objs, origin, dropped, clears>>

DerefMut(h) ==
  /\ UserRuns
  /\ handles[h].kind = "box"
  /\ flags' = deref(handles[h]).flags
  /\ UNCHANGED <<arena, page_log, budget, handles, mem, objs, origin, dropped, clears>>

IntoShared(h) ==
  /\ UserRuns
  /\ handles[h].kind = "box"
  /\ handles' = [handles EXCEPT ![h] = into_shared(handles[h])]
  /\ UNCHANGED <<arena, page_log, budget, flags, mem, objs, origin, dropped, clears>>

Clone(h) ==
  /\ UserRuns
  /\ handles[h].kind = "shared"
  /\ Len(handles) < budget.handles
  /\ handles' = Append(handles, clone(handles[h]).handle)
  /\ flags' = clone(handles[h]).flags
  /\ origin' = Append(origin, origin[h])
  /\ UNCHANGED <<arena, page_log, budget, mem, objs, dropped, clears>>

(* --------------------------- specification ---------------------------- *)
\* WeakArena::new(page_size), its first page placed at start in the memory m
New(size, start, m) ==
  LET page == AllocationPage(start, size) IN
  /\ nonzero(size)
  /\ page_size = size
  /\ pages = <<page>>
  /\ cursor = [page |-> 0, offset |-> page.start]
  /\ drop_handlers = <<>>
  /\ alive = 1
  /\ flags = <<TRUE>>
  /\ mem = Map(m, start, size)
  /\ page_log = [sizes |-> <<size>>, live |-> <<1>>, released |-> <<>>]

\* no handle, no allocation, no clear yet
Fresh ==
  /\ handles = <<>>
  /\ pc = "idle"
  /\ pending = <<>>
  /\ objs = <<>>
  /\ origin = <<>>
  /\ dropped = <<>>
  /\ clears = 0

Init ==
  /\ \E size \in InitPageSizes : \E start \in FirstPageStarts :
       New(size, start, [a \in Addrs |-> Unmapped])
  /\ budget = [allocs |-> MaxAllocs, handles |-> MaxHandles]
  /\ Fresh

Next ==
  \/ \E ty \in Types : AllocInCurrentPage(ty)
  \/ \E ty \in Types : \E start \in Addrs : AllocInNewPage(ty, start)
  \/ \E ty \in Types : \E start \in Addrs : AllocInNewPagePanics(ty, start)
  \/ ClearStart
  \/ RunDropHandler
  \/ ClearFinish
  \/ TeardownStart
  \/ TeardownFinish
  \/ \E h \in DOMAIN handles : AsRef(h)
  \/ \E h \in DOMAIN handles : AsMut(h)
  \/ \E h \in DOMAIN handles : Deref(h)
  \/ \E h \in DOMAIN handles : DerefMut(h)
  \/ \E h \in DOMAIN handles : IntoShared(h)
  \/ \E h \in DOMAIN handles : Clone(h)

Spec == Init /\ [][Next]_vars

(* ------------------- an arena filled with one type -------------------- *)
\* tests::page_grows_exp: an arena of page size s that is only ever filled with values
\* of size s and alignment s (i32 for s = 4, lib.rs:288-290), the system allocator
\* placing every page at a multiple of s.
GrowSizes == {1, 2, 4}
GrowType(s) == [size |-> s, align |-> s, nd |-> FALSE]
\* room for the pages GrowAllocs values of the largest size need: 1..GrowTop
GrowTop == 2 * GrowAllocs * 4 - 1
GrowMem == [a \in 1..GrowTop |-> Unmapped]
\* the placements explored: the lowest and the highest free block that starts at a
\* multiple of s
GrowStarts(m, size, s) ==
  LET fs == {a \in FreeStarts(m, size) : a % s = 0} IN
  {a \in fs : (\A b \in fs : a <= b) \/ (\A b \in fs : b <= a)}

\* arena.alloc(0) served by the current page
GrowFill(s) ==
  /\ s = pages[1].layout
  /\ AllocInCurrentPage(GrowType(s))

\* arena.alloc(0) served by a new page
GrowPage(s, start) ==
  /\ s = pages[1].layout
  /\ start \in GrowStarts(mem, grown_page_size(GrowType(s)), s)
  /\ AllocInNewPage(GrowType(s), start)

InitGrow ==
  /\ \E s \in GrowSizes : \E start \in GrowStarts(GrowMem, s, s) : New(s, start, GrowMem)
  /\ budget = [allocs |-> GrowAllocs, handles |-> GrowAllocs]
  /\ Fresh

NextGrow ==
  \/ \E s \in GrowSizes : GrowFill(s)
  \/ \E s \in GrowSizes : \E start \in 1..GrowTop : GrowPage(s, start)

SpecGrow == InitGrow /\ [][NextGrow]_vars

(* ------------------------------- claims ------------------------------- *)
Obj(h) == objs[origin[h]]
Handles == DOMAIN handles

\* C1: once clear() has returned, every handle issued before it, exclusive or shared,
\* clone or not, is dead: as_ref / as_mut return None and dereferencing panics.
C1_DeadAfterClear ==
  \A h \in Handles :
    Obj(h).epoch < clears =>
      /\ ~as_ref(handles[h]).some
      /\ deref(handles[h]).panic
      /\ Read(h, as_ref(handles[h])) = {}

\* a clear after growth, with a shared handle and its clone issued before it
C1_Witness ==
  /\ pc = "idle"
  /\ clears = 1
  /\ \E h, g \in Handles :
       /\ h # g /\ origin[h] = origin[g]
       /\ Obj(h).epoch = 0
       /\ deref(handles[h]).panic /\ deref(handles[g]).panic

Dead(h) == ~as_ref(handles[h]).some

\* C2: a dead handle stays dead in every later step, and a handle returned by an
\* allocation is alive and shares its flag with no dead handle.
C2_DeadForever ==
  [][ /\ \A h \in Handles : Dead(h) => Dead(h)'
      /\ \A n \in 1..MaxHandles :
           (Len(objs') > Len(objs) /\ n = Len(handles')) =>
             /\ ~Dead(n)'
             /\ \A h \in Handles : Dead(h) => handles[h].alive # handles'[n].alive ]_vars

\* a dead handle and a live one, from a later allocation, that store the same address
C2_Witness ==
  \E h, g \in Handles :
    /\ Dead(h) /\ ~Dead(g)
    /\ handles[h].ptr = handles[g].ptr
    /\ handles[h].size > 0 /\ handles[g].size > 0

\* C3: whenever user code can run, no access succeeds on a value whose destructor has
\* run or whose page has been released.
C3_NoAccessToDestroyed ==
  \A h \in Handles : (UserRuns /\ as_ref(handles[h]).some) => ~Stale(h)

\* C4: between clears, dereferencing a handle gives the value it was allocated with,
\* whatever was allocated after it.
C4_DerefYieldsValue ==
  \A h \in Handles :
    (pc = "idle" /\ Obj(h).epoch = clears) =>
      /\ ~deref(handles[h]).panic
      /\ Read(h, deref(handles[h])) = {Obj(h).v}

\* two values, the second allocated in a page added for it
C4_Witness ==
  /\ pc = "idle"
  /\ Len(pages) = 2
  /\ \E h, g \in Handles :
       /\ origin[h] < origin[g]
       /\ Obj(h).epoch = clears /\ Obj(g).epoch = clears
       /\ Obj(h).size > 0 /\ Obj(g).size > 0
       /\ Read(h, deref(handles[h])) = {Obj(h).v}

InSeq(x, sq) == \E i \in DOMAIN sq : sq[i] = x
Registry == pending \o drop_handlers
Increasing(sq) == \A i, j \in DOMAIN sq : i < j => sq[i] < sq[j]

\* C5: destructors run once each and in allocation order; a value that needs dropping
\* is in the registry from its allocation until the next clear or the teardown runs its
\* destructor; a value that needs no dropping is never registered.
C5_DestructorsOnceInOrder ==
  /\ Increasing(dropped)
  /\ Increasing([i \in DOMAIN Registry |-> Registry[i].obj])
  /\ \A i \in DOMAIN Registry :
       /\ Registry[i].value = objs[Registry[i].obj].ptr
       /\ Registry[i].size = objs[Registry[i].obj].size
  /\ \A o \in DOMAIN objs :
       LET registered == \E i \in DOMAIN Registry : Registry[i].obj = o IN
       IF ~objs[o].nd THEN ~registered /\ ~InSeq(o, dropped)
       ELSE IF objs[o].epoch < clears THEN InSeq(o, dropped) /\ ~registered
       ELSE IF pc \in {"idle", "gone"} THEN registered /\ ~InSeq(o, dropped)
       ELSE registered # InSeq(o, dropped)

\* two destructors run by one clear, and the arena torn down after it
C5_Witness ==
  /\ pc = "gone"
  /\ Len(dropped) = 2
  /\ objs[dropped[1]].epoch = 0 /\ objs[dropped[2]].epoch = 0
  /\ clears = 2

\* C6: every handle, converted or cloned, holds the address and the flag of the
\* allocation it descends from, so the handles of one allocation are alive together.
C6_SharedFollowsOrigin ==
  \A h \in Handles :
    /\ handles[h].ptr = Obj(h).ptr
    /\ handles[h].alive = Obj(h).flag
    /\ as_ref(handles[h]).some = flags[Obj(h).flag]
    /\ \A g \in Handles : origin[g] = origin[h] => Dead(g) = Dead(h)

\* a shared handle and a clone of it, made after the clear that killed them
C6_Witness ==
  \E h, g \in Handles :
    /\ h < g /\ origin[h] = origin[g]
    /\ handles[h].kind = "shared" /\ handles[g].kind = "shared"
    /\ Dead(h) /\ Dead(g)
    /\ \E k \in Handles : ~Dead(k) /\ handles[k].kind = "shared"

\* C7: an access forms a reference from the stored address only if the flag read alive.
C7_FlagCheckedFirst ==
  \A h \in Handles : UserRuns => (as_ref(handles[h]).formed => as_ref(handles[h]).flag)

HandleOp ==
  \E h \in Handles :
    AsRef(h) \/ AsMut(h) \/ Deref(h) \/ DerefMut(h) \/ IntoShared(h) \/ Clone(h)

\* what no handle operation may change: the arena, the memory, the arena's flag and
\* the liveness of any handle
ArenaTouched ==
  \/ <<page_size, pages, cursor, drop_handlers, alive, pending, pc, mem>>'
       # <<page_size, pages, cursor, drop_handlers, alive, pending, pc, mem>>
  \/ flags'[alive] # flags[alive]
  \/ \E h \in Handles : Dead(h)' # Dead(h)

\* C8: dereferencing panics exactly when as_ref returns None, and no handle operation
\* changes the arena's pages, cursor, registry or flag.
C8_DerefMatchesTryAccess ==
  [][ /\ \A h \in Handles :
           /\ deref(handles[h]).panic = ~as_ref(handles[h]).some
           /\ deref(handles[h]).some = as_ref(handles[h]).some
      /\ ArenaTouched => ~HandleOp ]_vars

\* a handle operation has just been made, with a dead and a live handle about
C8_Witness ==
  /\ pc = "idle"
  /\ Len(handles) = MaxHandles
  /\ \E h, g \in Handles :
       /\ deref(handles[h]).panic /\ ~deref(handles[g]).panic
       /\ handles[g].kind = "shared"

Grows(ty) ==
  \E start \in Addrs :
    AllocInNewPagePanics(ty, start) \/ AllocInNewPage(ty, start)

\* C9: clear() leaves the last page alone, the cursor at its start and the registry
\* empty; after it an allocation that does not fit in that page adds exactly one page.
C9_ClearKeepsLastPage ==
  [][ /\ ClearFinish =>
           /\ pages' = <<pages[Len(pages)]>>
           /\ cursor' = [page |-> 0, offset |-> pages'[1].start]
           /\ drop_handlers' = <<>>
      /\ \A ty \in Types :
           /\ (clears > 0 /\ Len(pages) = 1 /\ AllocInCurrentPage(ty))
                => Len(pages') = 1
           /\ (clears > 0 /\ Len(pages) = 1 /\ Grows(ty)) => Len(pages') = 2 ]_vars

\* C10: an allocation that fits changes neither the pages nor page_size; one that does
\* not fit adds one page of max(2 * page_size, size) bytes and sets page_size to that;
\* nothing else adds a page.
C10_GrowthLaw ==
  [][ /\ \A ty \in Types :
           /\ AllocInCurrentPage(ty) => pages' = pages /\ page_size' = page_size
           /\ Grows(ty) =>
                /\ Len(pages') = Len(pages) + 1
                /\ SubSeq(pages', 1, Len(pages)) = pages
                /\ pages'[Len(pages')].layout = Max(2 * page_size, ty.size)
                /\ page_size' = Max(2 * page_size, ty.size)
      /\ Len(pages') > Len(pages) => \E ty \in Types : Grows(ty) ]_vars

RECURSIVE Log2(_)
Log2(k) == IF k <= 1 THEN 0 ELSE 1 + Log2(k \div 2)

\* C11: in an arena of page size s filled only with values of size and alignment s,
\* its pages starting at multiples of s, the number of pages after the k-th allocation
\* is floor(log2(k)) + 1.
C11_PageCountLog ==
  Len(objs) >= 1 => Len(pages) = Log2(Len(objs)) + 1

\* sixteen two-byte values in five pages, the last page holding only the sixteenth
C11_Witness ==
  /\ pages[1].layout = 2
  /\ Len(objs) = 16
  /\ Len(pages) = 5
  /\ objs[16].ptr = pages[5].start
  /\ objs[15].ptr + 2 = pages[4].end

RECURSIVE SumSizes(_)
SumSizes(os) == IF os = <<>> THEN 0 ELSE Head(os).size + SumSizes(Tail(os))

\* where a bump pointer starting at cur stands after the values os, each put at the next
\* multiple of its alignment
RECURSIVE PaddedEnd(_, _)
PaddedEnd(cur, os) ==
  IF os = <<>> THEN cur
  ELSE PaddedEnd(cur + align_offset(cur, Head(os).align) + Head(os).size, Tail(os))

\* C12 as stated: before any clear, while the sizes of the values allocated add up to
\* no more than the page size the arena was created with, there is one page.
C12_WithinPageSize ==
  (clears = 0 /\ SumSizes(objs) <= pages[1].layout) => Len(pages) = 1

\* C12, amended: before any clear, while the sizes of the values allocated, together
\* with the padding that brings each to a multiple of its alignment counted from the
\* page's start address, add up to no more than the page size, there is one page.
C12_WithinPaddedSize ==
  (clears = 0 /\ PaddedEnd(pages[1].start, objs) <= pages[1].end) => Len(pages) = 1

\* two values fill the one page to its last byte, a padding byte between them
C12_Witness ==
  /\ clears = 0
  /\ Len(objs) = 2
  /\ Len(pages) = 1
  /\ PaddedEnd(pages[1].start, objs) = pages[1].end
  /\ SumSizes(objs) < pages[1].layout

\* C13: whenever an allocation does not fit in the current page, the reservation at the
\* start of the new page of max(2 * page_size, size) bytes succeeds, wherever the
\* system allocator puts that page.
C13_GrowthNeverFails ==
  \A ty \in Types : \A start \in Addrs :
    LET size == grown_page_size(ty)
        page == AllocationPage(start, size)
    IN (/\ CanAlloc
        /\ alloc_in_current_page(ty) = None
        /\ nonzero(size)
        /\ start \in FreeStarts(mem, size))
       => try_alloc_layout(page, page.start, ty) # None

Count(x, sq) == Cardinality({i \in DOMAIN sq : sq[i] = x})
PagesMade == 1..Len(page_log.sizes)

\* C14: no page is ever released twice or while the arena holds it; and once the arena
\* has been dropped, every registered destructor has run exactly once (and no other),
\* every page ever created has been released exactly once, no memory is left mapped,
\* and every handle is dead.
C14_TeardownReleasesAll ==
  /\ \A n \in PagesMade :
       Count(n, page_log.released) + Count(n, page_log.live) = 1
  /\ Len(page_log.live) = Len(pages)
  /\ pc = "gone" =>
       /\ \A o \in DOMAIN objs : Count(o, dropped) = IF objs[o].nd THEN 1 ELSE 0
       /\ Registry = <<>>
       /\ \A n \in PagesMade : Count(n, page_log.released) = 1
       /\ pages = <<>>
       /\ \A a \in DOMAIN mem : mem[a].st = "unmapped"
       /\ \A h \in Handles : Dead(h) /\ deref(handles[h]).panic

\* an arena dropped after it had grown: two pages released, a destructor run, a value
\* without destructor, and a shared handle left over
C14_Witness ==
  /\ pc = "gone"
  /\ Len(page_log.released) >= 2
  /\ \E o \in DOMAIN objs : objs[o].nd /\ Count(o, dropped) = 1
  /\ \E o \in DOMAIN objs : ~objs[o].nd
  /\ \E h \in Handles : handles[h].kind = "shared" /\ Dead(h)

\* C15: no page of capacity 0 is ever created: no arena comes of WeakArena::new(0), and
\* in an arena made with a positive page size no allocation, of a zero-sized value
\* either, and no clear makes one.
C15_NoEmptyPage ==
  /\ \A n \in PagesMade : page_log.sizes[n] > 0
  /\ \A i \in DOMAIN pages : pages[i].layout > 0 /\ pages[i].start < pages[i].end

\* a zero-sized value that did not fit (its alignment is 2, the cursor odd and at the
\* page's end) and was given a new page
C15_Witness ==
  /\ clears = 0
  /\ Len(objs) = 2
  /\ objs[1].size = 1 /\ objs[1].ptr = pages[1].start
  /\ objs[2].size = 0
  /\ Len(page_log.sizes) = 2
  /\ Len(pages) = 2
  /\ pages[2].start <= objs[2].ptr /\ objs[2].ptr <= pages[2].end

\* the arena of the test: page size 4, 4-byte 4-aligned values
FourByteArena ==
  /\ page_log.sizes[1] = 4
  /\ \A o \in DOMAIN objs : objs[o].size = 4 /\ objs[o].align = 4

\* C16 as stated: with page size 4 and 4-byte 4-aligned values, there are 5 pages after
\* 1 + 2 + 4 + 8 = 15 allocations.
C16_FiveAfterFifteen ==
  (FourByteArena /\ Len(objs) = 15) => Len(pages) = 5

\* C16, amended: with page size 4, 4-byte 4-aligned values and pages that start at
\* multiples of 4, there are 4 pages after 1 + 2 + 4 + 8 = 15 allocations, all of them
\* full, and 5 pages after the 16th.
C16_FiveAtSixteen ==
  FourByteArena =>
    /\ Len(objs) = 15 => Len(pages) = 4 /\ cursor.offset = pages[4].end
    /\ Len(objs) = 16 => Len(pages) = 5

\* the 16th four-byte value, alone in the fifth page, of 64 bytes
C16_Witness ==
  /\ FourByteArena
  /\ Len(objs) = 16
  /\ Len(pages) = 5
  /\ pages[5].layout = 64
  /\ cursor = [page |-> 4, offset |-> pages[5].start + 4]

\* C17: the pages' capacities never decrease in creation order, among the pages the
\* arena holds and among all pages ever created; so the last page is the largest, and
\* page_size is its capacity at least.
C17_LastPageLargest ==
  /\ \A i, j \in DOMAIN pages : i < j => pages[i].layout <= pages[j].layout
  /\ \A i, j \in PagesMade : i < j => page_log.sizes[i] <= page_log.sizes[j]
  /\ \A i \in DOMAIN pages : pages[i].layout <= page_size

\* a second page added at the second attempt, after a first attempt that panicked and
\* left page_size doubled
C17_Witness ==
  /\ Len(pages) = 2
  /\ page_log.sizes = <<pages[1].layout, 2 * pages[1].layout, 4 * pages[1].layout>>
  /\ pages[2].layout = 4 * pages[1].layout

\* C18: as long as the arena exists (after new, after every allocation, panicking or
\* not, during and after every clear) it has at least one page, cursor.page is the
\* index of the last page, and cursor.offset lies between that page's start and end.
C18_CursorInLastPage ==
  pc # "gone" =>
    /\ Len(pages) >= 1
    /\ cursor.page = Len(pages) - 1
    /\ pages[Len(pages)].start <= cursor.offset
    /\ cursor.offset <= pages[Len(pages)].end

\* after a clear that released a page: one page, the cursor at the start of it
C18_Witness ==
  /\ pc = "idle"
  /\ clears = 1
  /\ page_log.released = <<1>>
  /\ Len(pages) = 1
  /\ cursor = [page |-> 0, offset |-> pages[1].start]
  /\ Len(objs) = 1

\* the cursor goes forward in the page it is in, the pages staying as they are
MovesForward ==
  /\ pages' = pages
  /\ cursor'.page = cursor.page
  /\ cursor'.offset > cursor.offset
\* the cursor goes to a page just appended: to its start, and on past the value the same
\* step puts there
JumpsToNewPage ==
  /\ Len(pages') = Len(pages) + 1
  /\ SubSeq(pages', 1, Len(pages)) = pages
  /\ cursor'.page = Len(pages)
  /\ pages'[Len(pages')].start <= cursor'.offset
  /\ cursor'.offset <= pages'[Len(pages')].end
\* clear(), also the one Drop for WeakArena calls, puts the cursor back to the start of
\* the page it keeps
ResetByClear ==
  /\ ClearFinish \/ TeardownFinish
  /\ cursor' = [page |-> 0, offset |-> pages[Len(pages)].start]

\* C19 as stated: in every step that changes the cursor, it moves forward within its
\* page or jumps to a newly appended page; it never goes backward or anywhere else.
C19_CursorOnlyForward ==
  [][cursor' # cursor => MovesForward \/ JumpsToNewPage]_vars

\* C19, amended: in every step that changes the cursor, it moves forward within its
\* page, or jumps to a newly appended page, or is put back by clear() to the start of
\* the page clear() keeps; it never goes anywhere else.
C19_CursorForwardOrReset ==
  [][cursor' # cursor => MovesForward \/ JumpsToNewPage \/ ResetByClear]_vars

\* a clear has put the cursor back onto a value of the page it kept, a page added by
\* growth
C19_Witness ==
  /\ pc = "idle"
  /\ clears = 1
  /\ Len(page_log.sizes) >= 2
  /\ Len(pages) = 1
  /\ \E o \in DOMAIN objs :
       objs[o].epoch = 0 /\ objs[o].size > 0 /\ objs[o].ptr = cursor.offset

\* the allocations made since the last clear, and the bytes of one
Current == {o \in DOMAIN objs : objs[o].epoch = clears}
Bytes(o) == Range(objs[o].ptr, objs[o].size)

\* C20: the values allocated since the last clear occupy pairwise disjoint bytes, each
\* within one page the arena holds (mapped memory), each starting at a multiple of its
\* alignment; and no two alive handles of different allocations overlap.
C20_AllocationsDisjoint ==
  /\ \A o \in Current :
       /\ objs[o].ptr % objs[o].align = 0
       /\ \E i \in DOMAIN pages :
            pages[i].start <= objs[o].ptr /\ objs[o].ptr + objs[o].size <= pages[i].end
       /\ \A a \in Bytes(o) : mem[a].st # "unmapped"
  /\ \A o, p \in Current : o # p => Bytes(o) \cap Bytes(p) = {}
  /\ \A h, g \in Handles :
       (~Dead(h) /\ ~Dead(g) /\ origin[h] # origin[g]) =>
         Range(handles[h].ptr, handles[h].size) \cap Range(handles[g].ptr, handles[g].size) = {}

\* two values side by side in a page added by growth, the first after a padding byte,
\* both with an alive handle
C20_Witness ==
  /\ pc = "idle"
  /\ Current = {1, 2}
  /\ Len(pages) = 2
  /\ objs[1].ptr = pages[2].start + 1
  /\ objs[1].size = 2
  /\ objs[2].ptr = objs[1].ptr + 2
  /\ objs[2].size = 1
  /\ \E h, g \in Handles : origin[h] = 1 /\ origin[g] = 2 /\ ~Dead(h) /\ ~Dead(g)

====
